---------------------------- MODULE Spec2Model ----------------------------
(***************************************************************************)
(* Model of lld/ELF/BPSectionOrderer.h: the ELFSymbol and ELFSection       *)
(* adapters used by the balanced-partitioning section orderer.             *)
(*                                                                         *)
(*   SpecHash      ELFSection::getSectionHash on one section               *)
(*   SpecHashPair  getSectionHash on two sections, to compare signatures   *)
(*   SpecSym       ELFSection::getSymbols, calls made one after another    *)
(*   SpecConc      two threads inside getSymbols on different sections     *)
(*   SpecElfSym    the accessors of ELFSymbol                              *)
(***************************************************************************)
EXTENDS Integers, Sequences, FiniteSets, TLC

(***************************************************************************)
(* Bounds of the model.                                                    *)
(***************************************************************************)
MaxLen == 4        \* longest section content, in bytes
MaxInitLen == 2    \* longest output vector handed to getSectionHash
HashMod == 5       \* size of the modelled hash space (2^64 in the program)
MaxSyms == 2       \* most symbols in one file
MaxVal == 2        \* largest symbol value and size

\* constexpr unsigned windowSize = 4;
windowSize == 4

(***************************************************************************)
(* Values.                                                                 *)
(***************************************************************************)
\* uint8_t, abstracted to two representative byte values.
Byte == {0, 255}

\* The null InputSectionBase pointer.
NullSec == "nullptr"

\* The two ELFSection objects whose signatures are computed and compared.
HashSecs == {"A", "B"}

\* ELFSection::getSection: the InputSectionBase an ELFSection wraps (isec).
getSection(sec) == IF sec = "A" THEN "isecA" ELSE "isecB"

SeqsUpTo(S, n) == UNION {[1..k -> S] : k \in 0..n}

Contents == SeqsUpTo(Byte, MaxLen)

InitialHashes == SeqsUpTo(0..(HashMod - 1), MaxInitLen)

\* isec->relocations: the section's relocations (offset into the content and
\* addend); the code that would read them is commented out.
RelocLists == {<<>>, <<[offset |-> 0, addend |-> 1]>>}

\* The sectionToIdx argument: a dense indexing 0..N-1 of some of the sections.
IdxMaps ==
  UNION {{m \in [D -> 0..(Cardinality(D) - 1)] :
            \A x, y \in D : m[x] = m[y] => x = y} : D \in SUBSET HashSecs}

(***************************************************************************)
(* Sections, files and symbols of the getSymbols model.                    *)
(***************************************************************************)
\* Three sections wrapped by ELFSection objects, and the two files they
\* come from: S1 and S2 belong to file f1, S3 to file f2.
SymSecs == {"S1", "S2", "S3"}

Files == {"f1", "f2"}

\* isec->file
FileOf(sec) == IF sec = "S3" THEN "f2" ELSE "f1"

\* A symbol that belongs to no section (undefined, absolute, ...).
NoSection == "nosection"

\* The symbols a file may hold, each with the section that owns it.
FileSymbolLists(f) ==
  SeqsUpTo([section : {s \in SymSecs : FileOf(s) = f} \cup {NoSection}], MaxSyms)

\* Symbol kinds (Symbol::Kind); Defined::classof accepts DefinedKind only.
SymbolKinds == {"Defined", "Common", "Shared", "Undefined", "Lazy"}

\* The symbols ELFSymbol may wrap.  Defined and SharedSymbol carry a value
\* and a size, CommonSymbol a size, the others neither.
ElfSymbols ==
  {y \in [kind : SymbolKinds, value : 0..MaxVal, size : 0..MaxVal] :
     /\ y.kind \in {"Undefined", "Lazy"} => y.value = 0 /\ y.size = 0
     /\ y.kind = "Common" => y.value = 0}

None == "none"

\* The null Symbol pointer.
NullSymbol == [kind |-> "nullptr", value |-> 0, size |-> 0]

\* No ArrayRef returned yet.
NoView == [gen |-> -1, len |-> 0]

\* No call made, no list read yet.
NoList == [sec |-> None, list |-> <<>>]

\* The result of an accessor that has not been called (no uint64_t).
NotCalled == -1

\* The content of memory that was never written, or was freed.
Garbage == [by |-> "garbage", pos |-> 0, sym |-> <<"garbage", 0>>]

Threads == {1, 2}

VARIABLES
  content,      \* isec->content() of each section
  relocations,  \* isec->relocations of each section
  hashes,       \* the output vector `hashes` of each section's call
  hashes0,      \* the output vector as it was handed to the call
  sliced,       \* the slice(i, windowSize) requests the call made, in order
  pushed,       \* the window hashes the call pushed, in order, before the sort
  hpc,          \* "ready", "done" (returned) or "crashed"
  fileSymbols,  \* isec->file->getSymbols() of each file
  symbolCache,  \* ELFSection::symbolCache of each section
  result,       \* the function-local `static std::vector<BPSymbol *> result`
  view,         \* the ArrayRef last returned for each section, or NoView
  returned,     \* the last call: its section and the list it returned
  observed,     \* the last read through a returned ArrayRef
  called,       \* getSymbols was called on the section "never", "once", "again"
  tsec,         \* the section each thread calls getSymbols on
  tpc,          \* where each thread is inside getSymbols
  tk,           \* each thread's position in `for (sym : symbolCache)`
  tsz,          \* the size each thread's push_back has loaded
  sym,          \* the Symbol an ELFSymbol wraps
  rAsDefined,   \* what asDefinedSymbol returned, or None
  rValue,       \* what getValue returned, or NotCalled
  rSize         \* what getSize returned, or NotCalled

hashVars == <<content, relocations, hashes, hashes0, sliced, pushed, hpc>>

symVars == <<fileSymbols, symbolCache, result, view, returned, observed, called>>

thrVars == <<tsec, tpc, tk, tsz>>

elfVars == <<sym, rAsDefined, rValue, rSize>>

vars == <<hashVars, symVars, thrVars, elfVars>>

(***************************************************************************)
(* The parts of the state a specification does not use.                    *)
(***************************************************************************)
IdleHash ==
  /\ content = [s \in HashSecs |-> <<>>]
  /\ relocations = [s \in HashSecs |-> <<>>]
  /\ hashes0 = [s \in HashSecs |-> <<>>]
  /\ hashes = hashes0
  /\ sliced = [s \in HashSecs |-> <<>>]
  /\ pushed = [s \in HashSecs |-> <<>>]
  /\ hpc = [s \in HashSecs |-> "ready"]

IdleSym ==
  /\ fileSymbols = [f \in Files |-> <<>>]
  /\ symbolCache = [s \in SymSecs |-> <<>>]
  /\ result = [buf |-> <<>>, size |-> 0, gen |-> 0, freed |-> <<>>]
  /\ view = [s \in SymSecs |-> NoView]
  /\ returned = NoList
  /\ observed = NoList
  /\ called = [s \in SymSecs |-> "never"]

IdleThreads ==
  /\ tsec = [t \in Threads |-> None]
  /\ tpc = [t \in Threads |-> "idle"]
  /\ tk = [t \in Threads |-> 0]
  /\ tsz = [t \in Threads |-> 0]

IdleElf ==
  /\ sym = NullSymbol
  /\ rAsDefined = None
  /\ rValue = NotCalled
  /\ rSize = NotCalled

(***************************************************************************)
(* Pure helpers of getSectionHash.                                         *)
(***************************************************************************)
\* llvm::xxHash64 of a window: a deterministic function of the window's
\* bytes into the hash space (a polynomial hash; collisions are possible).
RECURSIVE xxHash64(_)
xxHash64(window) ==
  IF window = <<>> THEN 1
  ELSE (xxHash64(SubSeq(window, 1, Len(window) - 1)) * 3
        + (IF window[Len(window)] = 0 THEN 1 ELSE 2)) % HashMod

\* ELFSection::hasValidData: isec && !isec->content().empty()
hasValidData(sec) == getSection(sec) # NullSec /\ Len(content[sec]) # 0

\* The conversion loop: elfSectionToIdx[elfSec->getSection()] = idx for every
\* entry (classof is always true, so the dyn_cast never fails).
ConvertMap(sectionToIdx) ==
  [k \in {getSection(s) : s \in DOMAIN sectionToIdx} |->
     sectionToIdx[CHOOSE s \in DOMAIN sectionToIdx : getSection(s) = k]]

\* A loop that hashes full windows only (a plausible variant of the bound).
LoopEndFullWindows(n) == IF n >= windowSize THEN n - windowSize + 1 ELSE 0

\* The loop `for (size_t i = 0; i < isec->content().size(); i++)`:
\* the exclusive upper bound of i.
LoopEnd(n) == n

\* ArrayRef::slice(N, M) on memory `mem`: the M bytes starting at offset N.
\* Its precondition N + M <= size() is not checked here; see SliceInBounds.
slice(mem, N, M) == SubSeq(mem, N + 1, N + M)

\* The precondition of ArrayRef::slice(N, M) on an array of `size` elements.
SliceInBounds(size, N, M) == N + M <= size

\* The slice requests of the content-hash loop, in order.
SliceRequests(n) == [k \in 1..LoopEnd(n) |-> [off |-> k - 1, len |-> windowSize]]

\* hashes.push_back(xxHash64(window)) for the first `count` loop iterations,
\* reading the bytes found in memory `mem` (the content and what follows it).
WindowHashes(mem, count) ==
  [k \in 1..count |-> xxHash64(slice(mem, k - 1, windowSize))]

\* llvm::sort(hashes): ascending order (insertion sort).
RECURSIVE Insert(_, _)
Insert(sorted, x) ==
  IF sorted = <<>> THEN <<x>>
  ELSE IF x <= Head(sorted) THEN <<x>> \o sorted
  ELSE <<Head(sorted)>> \o Insert(Tail(sorted), x)

RECURSIVE sort(_)
sort(seq) == IF seq = <<>> THEN <<>> ELSE Insert(sort(Tail(seq)), Head(seq))

\* A unique step that forgets to erase (a plausible bug).
UniqueKeepAll(seq) == seq

\* hashes.erase(std::unique(begin, end), end): drops every element equal to
\* its predecessor.
RECURSIVE Unique(_)
Unique(seq) ==
  IF Len(seq) <= 1 THEN seq
  ELSE IF seq[1] = seq[2] THEN Unique(Tail(seq))
  ELSE <<seq[1]>> \o Unique(Tail(seq))

(***************************************************************************)
(* SpecHash: ELFSection::getSectionHash.                                   *)
(***************************************************************************)
\* Section A has arbitrary content and is handed an arbitrary output vector;
\* section B is an empty section that is not hashed.
InitHash ==
  /\ content \in [HashSecs -> Contents]
  /\ content["B"] = <<>>
  /\ relocations = [s \in HashSecs |-> <<>>]
  /\ hashes0 \in [HashSecs -> InitialHashes]
  /\ hashes0["B"] = <<>>
  /\ hashes = hashes0
  /\ sliced = [s \in HashSecs |-> <<>>]
  /\ pushed = [s \in HashSecs |-> <<>>]
  /\ hpc = [s \in HashSecs |-> "ready"]
  /\ IdleSym /\ IdleThreads /\ IdleElf

\* Both sections have arbitrary content and relocations, and both calls start
\* from an empty output vector.
InitHashPair ==
  /\ content \in [HashSecs -> Contents]
  /\ relocations \in [HashSecs -> RelocLists]
  /\ hashes0 = [s \in HashSecs |-> <<>>]
  /\ hashes = hashes0
  /\ sliced = [s \in HashSecs |-> <<>>]
  /\ pushed = [s \in HashSecs |-> <<>>]
  /\ hpc = [s \in HashSecs |-> "ready"]
  /\ IdleSym /\ IdleThreads /\ IdleElf

\* The slice requests whose window leaves a content of n bytes.
OutOfBounds(n) ==
  {k \in 1..Len(SliceRequests(n)) :
     ~SliceInBounds(n, SliceRequests(n)[k].off, SliceRequests(n)[k].len)}

\* One call of sec.getSectionHash(hashes, sectionToIdx) that runs to its
\* return.  A window that leaves the content violates the precondition of
\* slice; the call then hashes whatever bytes `beyond` follow the content in
\* memory.
getSectionHashReturns(sec) ==
  /\ hpc[sec] = "ready"
  /\ \E sectionToIdx \in IdxMaps, beyond \in [1..(windowSize - 1) -> Byte] :
       LET n == Len(content[sec])
           elfSectionToIdx == ConvertMap(sectionToIdx)  \* a local, never read
           mem == content[sec] \o beyond
       IN /\ sliced' = [sliced EXCEPT ![sec] = SliceRequests(n)]
          /\ pushed' = [pushed EXCEPT ![sec] = WindowHashes(mem, LoopEnd(n))]
          /\ hashes' = [hashes EXCEPT ![sec] = Unique(sort(@ \o pushed'[sec]))]
          /\ hpc' = [hpc EXCEPT ![sec] = "done"]
  /\ UNCHANGED <<content, relocations, hashes0, symVars, thrVars, elfVars>>

\* The other outcome of a window that leaves the content: the call stops at
\* the first such slice (the assertion of slice fails, or the read faults).
getSectionHashTraps(sec) ==
  /\ hpc[sec] = "ready"
  /\ OutOfBounds(Len(content[sec])) # {}
  /\ \E sectionToIdx \in IdxMaps :
       LET n == Len(content[sec])
           elfSectionToIdx == ConvertMap(sectionToIdx)  \* a local, never read
           first == CHOOSE k \in OutOfBounds(n) : \A j \in OutOfBounds(n) : k <= j
       IN /\ sliced' = [sliced EXCEPT ![sec] = SubSeq(SliceRequests(n), 1, first)]
          /\ pushed' = [pushed EXCEPT ![sec] = WindowHashes(content[sec], first - 1)]
          /\ hashes' = [hashes EXCEPT ![sec] = @ \o pushed'[sec]]
          /\ hpc' = [hpc EXCEPT ![sec] = "crashed"]
  /\ UNCHANGED <<content, relocations, hashes0, symVars, thrVars, elfVars>>

getSectionHash(sec) == getSectionHashReturns(sec) \/ getSectionHashTraps(sec)

NextHashOne == getSectionHash("A")

NextHash == \E sec \in HashSecs : getSectionHash(sec)

SpecHash == InitHash /\ [][NextHashOne]_vars

SpecHashPair == InitHashPair /\ [][NextHash]_vars

(***************************************************************************)
(* Properties of getSectionHash.                                           *)
(***************************************************************************)
StrictlyAscending(seq) == \A k \in 1..(Len(seq) - 1) : seq[k] < seq[k + 1]

Range(seq) == {seq[k] : k \in 1..Len(seq)}

\* C1: when getSectionHash returns, the output vector is strictly ascending
\* (sorted, every distinct hash once) and holds exactly the distinct values of
\* the vector it was handed and of the window hashes it pushed.
C1_SortedUnique ==
  \A s \in HashSecs :
    hpc[s] = "done" =>
      /\ StrictlyAscending(hashes[s])
      /\ Range(hashes[s]) = Range(hashes0[s]) \cup Range(pushed[s])

\* C1 witness: a returned call whose input vector and pushed hashes contained
\* repeated values, all of which were folded into one.
C1_Witness ==
  \E s \in HashSecs :
    /\ hpc[s] = "done"
    /\ \E j, k \in 1..Len(pushed[s]) : j # k /\ pushed[s][j] = pushed[s][k]
    /\ \E j, k \in 1..Len(hashes0[s]) : j # k /\ hashes0[s][j] = hashes0[s][k]
    /\ Len(hashes[s]) < Len(hashes0[s]) + Len(pushed[s])

\* C2: every window the call slices lies inside the content, and the call
\* does not crash.
C2_WindowsInBounds ==
  \A s \in HashSecs :
    /\ hpc[s] # "crashed"
    /\ \A k \in 1..Len(sliced[s]) :
         sliced[s][k].off + sliced[s][k].len <= Len(content[s])

\* C3: a section of 1, 2 or 3 bytes contributes at most one content hash:
\* hashed from an empty output vector, its signature has at most one element
\* (which at most one hashed window would guarantee).
C3_ShortSectionOneHash ==
  \A s \in HashSecs :
    (hpc[s] = "done" /\ hashes0[s] = <<>>
       /\ Len(content[s]) \in 1..(windowSize - 1)) =>
      Len(hashes[s]) <= 1

\* C4: a call that started from an empty output vector returns an empty
\* signature exactly when the section has no valid data (empty content).
C4_EmptyIffNoData ==
  \A s \in HashSecs :
    (hpc[s] = "done" /\ hashes0[s] = <<>>) =>
      /\ (hashes[s] = <<>>) <=> ~hasValidData(s)
      /\ (hashes[s] = <<>>) <=> (content[s] = <<>>)

\* C4 witness: a section shorter than the window, hashed from an empty
\* output vector, returned a non-empty signature.
C4_Witness ==
  /\ hpc["A"] = "done" /\ hashes0["A"] = <<>>
  /\ Len(content["A"]) \in 1..(windowSize - 1) /\ hashes["A"] # <<>>

\* C10: two returned calls that started from empty output vectors on
\* sections with byte-identical content produce identical signatures.
C10_ContentAlone ==
  (/\ hpc["A"] = "done" /\ hpc["B"] = "done"
   /\ hashes0["A"] = <<>> /\ hashes0["B"] = <<>>
   /\ content["A"] = content["B"]) =>
    hashes["A"] = hashes["B"]

(***************************************************************************)
(* SpecElfSym: the accessors of ELFSymbol.                                 *)
(***************************************************************************)
\* llvm::dyn_cast<Defined>(sym): the symbol itself when it is a Defined,
\* null otherwise.
dyn_cast_Defined(y) == IF y.kind = "Defined" THEN y ELSE NullSymbol

\* A getValue that reads the value field whatever the symbol is.
getValueUnchecked(y) == y.value

\* ELFSymbol::asDefinedSymbol: `this` for a Defined symbol, else nullptr.
asDefinedSymbolOf(y) == IF dyn_cast_Defined(y) # NullSymbol THEN "this" ELSE "nullptr"

\* ELFSymbol::getValue: d->value for a Defined symbol, else 0.
getValueOf(y) == IF dyn_cast_Defined(y) # NullSymbol THEN dyn_cast_Defined(y).value ELSE 0

\* ELFSymbol::getSize: d->size for a Defined symbol, else 0.
getSizeOf(y) == IF dyn_cast_Defined(y) # NullSymbol THEN dyn_cast_Defined(y).size ELSE 0

InitElfSym ==
  /\ sym \in ElfSymbols
  /\ rAsDefined = None
  /\ rValue = NotCalled
  /\ rSize = NotCalled
  /\ IdleHash /\ IdleSym /\ IdleThreads

asDefinedSymbol ==
  /\ rAsDefined' = asDefinedSymbolOf(sym)
  /\ UNCHANGED <<sym, rValue, rSize, hashVars, symVars, thrVars>>

getValue ==
  /\ rValue' = getValueOf(sym)
  /\ UNCHANGED <<sym, rAsDefined, rSize, hashVars, symVars, thrVars>>

getSize ==
  /\ rSize' = getSizeOf(sym)
  /\ UNCHANGED <<sym, rAsDefined, rValue, hashVars, symVars, thrVars>>

NextElfSym == asDefinedSymbol \/ getValue \/ getSize

SpecElfSym == InitElfSym /\ [][NextElfSym]_vars

\* C6: asDefinedSymbol returns non-null exactly for a defined symbol; getValue
\* and getSize return 0 for a symbol that is not defined and the symbol's
\* value and size for one that is.
C6_DefinedOrZero ==
  /\ rAsDefined # None => ((rAsDefined # "nullptr") <=> (sym.kind = "Defined"))
  /\ rValue # NotCalled => rValue = (IF sym.kind = "Defined" THEN sym.value ELSE 0)
  /\ rSize # NotCalled => rSize = (IF sym.kind = "Defined" THEN sym.size ELSE 0)

\* C6 witness: the three accessors were called on a symbol that is not
\* defined and yet carries a non-zero value and size.
C6_Witness ==
  /\ sym.kind = "Shared" /\ sym.value > 0 /\ sym.size > 0
  /\ rAsDefined = "nullptr" /\ rValue = 0 /\ rSize = 0

(***************************************************************************)
(* std::vector<BPSymbol *> as memory: `buf` is the allocated buffer (its    *)
(* length is the capacity; what lies past `size` is stale), `gen` counts    *)
(* the reallocations, so that an ArrayRef taken before one dangles, and     *)
(* `freed` keeps what each freed buffer held when it was freed.             *)
(***************************************************************************)
\* result.clear(): the size drops to 0, the buffer is kept.
VecClear(v) == [v EXCEPT !.size = 0]

\* The store of push_back(x) once the size `sz` has been loaded: x is written
\* at index sz (0-based) and the size becomes sz + 1; a full buffer is first
\* reallocated to twice its capacity.
VecStoreAt(v, sz, x) ==
  IF sz < Len(v.buf)
  THEN [v EXCEPT !.buf[sz + 1] = x, !.size = sz + 1]
  ELSE LET cap == IF Len(v.buf) = 0 THEN 1 ELSE 2 * Len(v.buf)
       IN [buf |-> [k \in 1..cap |->
                      IF k <= Len(v.buf) THEN v.buf[k]
                      ELSE IF k = sz + 1 THEN x ELSE Garbage],
           size |-> sz + 1,
           gen |-> v.gen + 1,
           freed |-> Append(v.freed, v.buf)]

\* result.push_back(x)
VecPushBack(v, x) == VecStoreAt(v, v.size, x)

\* for (const auto &sym : symbolCache) result.push_back(sym.get());
RECURSIVE PushAll(_, _)
PushAll(v, ptrs) ==
  IF ptrs = <<>> THEN v ELSE PushAll(VecPushBack(v, Head(ptrs)), Tail(ptrs))

\* The ArrayRef a return of `result` constructs: data pointer and size.
ArrayRefOf(v) == [gen |-> v.gen, len |-> v.size]

\* What a read of all elements of ArrayRef `a` may yield: the buffer's
\* current elements when the buffer is still the one `a` points into; when
\* that buffer has been freed by a reallocation (a dangling read), either
\* what the buffer held when it was freed or other values.
ViewContents(a) ==
  IF a.gen = result.gen
  THEN {[k \in 1..a.len |-> result.buf[k]]}
  ELSE {[k \in 1..a.len |-> result.freed[a.gen + 1][k]],
        [k \in 1..a.len |-> Garbage]}

(***************************************************************************)
(* ELFSection::getSymbols.                                                 *)
(***************************************************************************)
\* The wrappers of one run of the loop
\*   for (Symbol *sym : isec->file->getSymbols())
\*     symbolCache.push_back(std::make_unique<ELFSymbol>(sym));
\* appended to `cache`.  A wrapper is a fresh object, named by the section
\* that made it and its position in that section's cache; `sym` is the k-th
\* symbol of the file.
WrapFileSymbols(sec, cache) ==
  cache \o [k \in 1..Len(fileSymbols[FileOf(sec)]) |->
              [by |-> sec, pos |-> Len(cache) + k, sym |-> <<FileOf(sec), k>>]]

\* A getSymbols that wraps the file's symbols on every call.
PopulateCacheAlways(sec, cache) == WrapFileSymbols(sec, cache)

\* if (symbolCache.empty()) { ...wrap every symbol of the file... }
PopulateCache(sec, cache) ==
  IF cache = <<>> THEN WrapFileSymbols(sec, cache) ELSE cache

\* The section that owns the symbol a wrapper wraps.
OwnerOf(w) == fileSymbols[w.sym[1]][w.sym[2]].section

InitSym ==
  /\ fileSymbols \in [Files -> UNION {FileSymbolLists(f) : f \in Files}]
  /\ \A f \in Files : fileSymbols[f] \in FileSymbolLists(f)
  /\ symbolCache = [s \in SymSecs |-> <<>>]
  /\ result = [buf |-> <<>>, size |-> 0, gen |-> 0, freed |-> <<>>]
  /\ view = [s \in SymSecs |-> NoView]
  /\ returned = NoList
  /\ observed = NoList
  /\ called = [s \in SymSecs |-> "never"]
  /\ IdleHash /\ IdleThreads /\ IdleElf

\* One whole call of sec.getSymbols().
getSymbols(sec) ==
  LET cache == PopulateCache(sec, symbolCache[sec])
      res == PushAll(VecClear(result), cache)
  IN /\ symbolCache' = [symbolCache EXCEPT ![sec] = cache]
     /\ result' = res
     /\ view' = [view EXCEPT ![sec] = ArrayRefOf(res)]
     /\ returned' = [sec |-> sec, list |-> SubSeq(res.buf, 1, res.size)]
     /\ called' = [called EXCEPT ![sec] = IF @ = "never" THEN "once" ELSE "again"]
     /\ UNCHANGED <<fileSymbols, observed, hashVars, thrVars, elfVars>>

\* The caller reads the elements of the list getSymbols last returned for sec.
ReadList(sec) ==
  /\ view[sec] # NoView
  /\ \E list \in ViewContents(view[sec]) :
       observed' = [sec |-> sec, list |-> list]
  /\ UNCHANGED <<fileSymbols, symbolCache, result, view, returned, called,
                 hashVars, thrVars, elfVars>>

NextSym == \E sec \in SymSecs : getSymbols(sec) \/ ReadList(sec)

SpecSym == InitSym /\ [][NextSym]_vars

\* C5: the list getSymbols returns for a section holds no wrapper of a
\* symbol that belongs to a different section (which a list of exactly the
\* section's own symbols would guarantee).
C5_OnlyOwnedSymbols ==
  \A k \in 1..Len(returned.list) :
    OwnerOf(returned.list[k]) \in {returned.sec, NoSection}

\* The symbols a list of wrappers wraps, in order.
SymbolsIn(list) == [k \in 1..Len(list) |-> list[k].sym]

\* C7: whatever calls were made since, a read of the list returned for a
\* section yields as many elements as that section has wrappers, wrapping
\* the same symbols.
C7_ReturnedListKept ==
  observed # NoList =>
    SymbolsIn(observed.list) = SymbolsIn(symbolCache[observed.sec])

\* C9: once getSymbols has been called on a section its wrapper list never
\* changes (no wrapper is created, the list does not grow), and every call
\* returns exactly that list, in order.
C9_Memoized ==
  [][\A s \in SymSecs :
       /\ called[s] # "never" => symbolCache'[s] = symbolCache[s]
       /\ returned'.sec = s => returned'.list = symbolCache'[s]]_vars

\* C9 witness: getSymbols was called again on a section with symbols and on
\* a section of a file without symbols, and the repeated call on the first
\* returned its wrappers.
C9_Witness ==
  /\ called["S1"] = "again" /\ called["S3"] = "again"
  /\ symbolCache["S1"] # <<>> /\ fileSymbols["f2"] = <<>>
  /\ returned = [sec |-> "S1", list |-> symbolCache["S1"]]

(***************************************************************************)
(* SpecConc: two threads, each inside getSymbols on its own section.  The  *)
(* steps are the statements of getSymbols; push_back is a load of the size *)
(* followed by the store.  `result` is one vector shared by all calls.     *)
(***************************************************************************)
InitConc ==
  /\ fileSymbols \in [Files -> UNION {FileSymbolLists(f) : f \in Files}]
  /\ \A f \in Files : fileSymbols[f] \in FileSymbolLists(f)
  /\ symbolCache = [s \in SymSecs |-> <<>>]
  /\ result = [buf |-> <<>>, size |-> 0, gen |-> 0, freed |-> <<>>]
  /\ view = [s \in SymSecs |-> NoView]
  /\ returned = NoList
  /\ observed = NoList
  /\ called = [s \in SymSecs |-> "never"]
  /\ tsec \in [Threads -> SymSecs]
  /\ tsec[1] = "S1" /\ tsec[2] # "S1"
  /\ tpc = [t \in Threads |-> "populate"]
  /\ tk = [t \in Threads |-> 0]
  /\ tsz = [t \in Threads |-> 0]
  /\ IdleHash /\ IdleElf

\* if (symbolCache.empty()) { ... } on the thread's own section.
T_Populate(t) ==
  /\ tpc[t] = "populate"
  /\ symbolCache' = [symbolCache EXCEPT
                       ![tsec[t]] = PopulateCache(tsec[t], symbolCache[tsec[t]])]
  /\ called' = [called EXCEPT ![tsec[t]] = IF @ = "never" THEN "once" ELSE "again"]
  /\ tpc' = [tpc EXCEPT ![t] = "clear"]
  /\ UNCHANGED <<fileSymbols, result, view, returned, observed, tsec, tk, tsz,
                 hashVars, elfVars>>

\* result.clear(); and the start of the loop over symbolCache.
T_Clear(t) ==
  /\ tpc[t] = "clear"
  /\ result' = VecClear(result)
  /\ tk' = [tk EXCEPT ![t] = 1]
  /\ tpc' = [tpc EXCEPT ![t] = IF symbolCache[tsec[t]] = <<>> THEN "return" ELSE "load"]
  /\ UNCHANGED <<fileSymbols, symbolCache, view, returned, observed, called,
                 tsec, tsz, hashVars, elfVars>>

\* push_back, first half: load the vector's size.
T_Load(t) ==
  /\ tpc[t] = "load"
  /\ tsz' = [tsz EXCEPT ![t] = result.size]
  /\ tpc' = [tpc EXCEPT ![t] = "store"]
  /\ UNCHANGED <<symVars, tsec, tk, hashVars, elfVars>>

\* push_back, second half: store the element and the new size.
T_Store(t) ==
  /\ tpc[t] = "store"
  /\ result' = VecStoreAt(result, tsz[t], symbolCache[tsec[t]][tk[t]])
  /\ tk' = [tk EXCEPT ![t] = @ + 1]
  /\ tpc' = [tpc EXCEPT ![t] =
               IF tk[t] = Len(symbolCache[tsec[t]]) THEN "return" ELSE "load"]
  /\ UNCHANGED <<fileSymbols, symbolCache, view, returned, observed, called,
                 tsec, tsz, hashVars, elfVars>>

\* return result; the ArrayRef is built from the vector as it is now.
T_Return(t) ==
  /\ tpc[t] = "return"
  /\ view' = [view EXCEPT ![tsec[t]] = ArrayRefOf(result)]
  /\ tpc' = [tpc EXCEPT ![t] = "read"]
  /\ UNCHANGED <<fileSymbols, symbolCache, result, returned, observed, called,
                 tsec, tk, tsz, hashVars, elfVars>>

\* The calling thread reads the list it was returned.
T_Read(t) ==
  /\ tpc[t] = "read"
  /\ \E list \in ViewContents(view[tsec[t]]) :
       observed' = [sec |-> tsec[t], list |-> list]
  /\ tpc' = [tpc EXCEPT ![t] = "done"]
  /\ UNCHANGED <<fileSymbols, symbolCache, result, view, returned, called,
                 tsec, tk, tsz, hashVars, elfVars>>

NextConc ==
  \E t \in Threads :
    \/ T_Populate(t)
    \/ T_Clear(t)
    \/ T_Load(t)
    \/ T_Store(t)
    \/ T_Return(t)
    \/ T_Read(t)

SpecConc == InitConc /\ [][NextConc]_vars

\* C8: with two threads in getSymbols on different sections, the list a
\* thread reads from its call is its own section's list: as many elements as
\* the section has wrappers, wrapping the same symbols.
C8_OwnListUnderConcurrency ==
  observed # NoList =>
    /\ Len(observed.list) = Len(symbolCache[observed.sec])
    /\ SymbolsIn(observed.list) = SymbolsIn(symbolCache[observed.sec])

=============================================================================
